---- MODULE Spec2Model ----
(***************************************************************************)
(* Model of geolog/src/utils.py: the IndexTracker scroll handler and the   *)
(* two plotting functions seismic_plot and spectrum_plot.                  *)
(*                                                                         *)
(* A 2-D numpy array is a non-empty sequence of equally long rows; Python  *)
(* index i is TLA+ index i + 1.  A matplotlib axes object is a record of   *)
(* the attributes the code sets on it.                                     *)
(*                                                                         *)
(* log is the sequence of (event.button, event.step) pairs onscroll has    *)
(* printed, trail the index after construction and after each event, and   *)
(* calls the most recent calls of the plotting functions with the          *)
(* rendering actions each produced.                                        *)
(***************************************************************************)
EXTENDS Integers, Sequences, FiniteSets, TLC

VARIABLES frames, frame_names, step, img_kwargs, ind, ax, log, trail, calls

vars == <<frames, frame_names, step, img_kwargs, ind, ax, log, trail, calls>>

trackerVars == <<frames, frame_names, step, img_kwargs, ind, ax, log, trail>>

(***************************************************************************)
(* Bounds of the model.                                                    *)
(***************************************************************************)
MaxN == 5

MaxStep == 3

MaxEvents == 3

(***************************************************************************)
(* Input pools.                                                            *)
(***************************************************************************)
ArrA == << <<1, 2>> >>

ArrB == << <<3, 4>>, <<5, 6>>, <<7, 8>> >>

FramePool == {ArrA, ArrB}

NamePool == <<"f0", "f1", "f2", "f3", "f4", "f5", "f6", "f7", "f8", "f9">>

KwargsPool == {{}, {<<"cmap", "gray">>}}

Buttons == {"up", "down", "left"}

EventSteps == {1, 10}

(***************************************************************************)
(* numpy helpers.                                                          *)
(***************************************************************************)
Shape(arr) == <<Len(arr), Len(arr[1])>>

Transpose(arr) ==
    [c \in 1..Len(arr[1]) |-> [r \in 1..Len(arr) |-> arr[r][c]]]

Maximum(a, b) == IF a >= b THEN a ELSE b

Minimum(a, b) == IF a <= b THEN a ELSE b

ClipWrap(a, a_min, a_max) == a_min + ((a - a_min) % (a_max - a_min + 1))

Clip(a, a_min, a_max) == Minimum(Maximum(a, a_min), a_max)

(***************************************************************************)
(* matplotlib axes: the calls IndexTracker.update makes on self.ax.        *)
(***************************************************************************)
NewAxes ==
    [clears |-> 0, images |-> <<>>, title |-> "", aspect |-> "auto",
     ylim |-> <<0, 1>>, xlim |-> <<0, 1>>]

AxClear(a) ==
    [a EXCEPT !.clears = @ + 1, !.images = <<>>, !.title = "",
              !.aspect = "auto", !.ylim = <<0, 1>>, !.xlim = <<0, 1>>]

AxImshow(a, img, kwargs) ==
    [a EXCEPT !.images = Append(@, [data |-> img, kwargs |-> kwargs]),
              !.aspect = "equal"]

AxSetTitle(a, t) == [a EXCEPT !.title = t]

AxSetAspect(a, asp) == [a EXCEPT !.aspect = asp]

AxSetYlim(a, lim) == [a EXCEPT !.ylim = lim]

AxSetXlim(a, lim) == [a EXCEPT !.xlim = lim]

(***************************************************************************)
(* IndexTracker.update                                                     *)
(***************************************************************************)
Update(a, frs, names, kwargs, i) ==
    LET img == frs[i + 1]
        a1 == AxClear(a)
        a2 == AxImshow(a1, Transpose(img), kwargs)
        a3 == AxSetTitle(a2, names[i + 1])
        a4 == AxSetAspect(a3, "auto")
        a5 == AxSetYlim(a4, <<Shape(img)[2], 0>>)
    IN  AxSetXlim(a5, <<0, Shape(img)[1]>>)

(***************************************************************************)
(* IndexTracker.__init__                                                   *)
(***************************************************************************)
InitIndLow(frs) == (Len(frs) - 1) \div 2

InitInd(frs) == Len(frs) \div 2

TrackerInit ==
    /\ \E n \in 1..MaxN :
          /\ frames \in [1..n -> FramePool]
          /\ frame_names = SubSeq(NamePool, 1, n)
    /\ step \in 1..MaxStep
    /\ img_kwargs \in KwargsPool
    /\ ind = InitInd(frames)
    /\ ax = Update(NewAxes, frames, frame_names, img_kwargs, ind)
    /\ log = <<>>
    /\ trail = <<ind>>

(***************************************************************************)
(* IndexTracker.onscroll                                                   *)
(***************************************************************************)
NextIndEventStep(i, button, evstep, st, n) ==
    IF button = "up"
    THEN Clip(i + evstep, 0, n - 1)
    ELSE Clip(i - evstep, 0, n - 1)

NextIndUpByOne(i, button, evstep, st, n) ==
    IF button = "up"
    THEN Clip(i + 1, 0, n - 1)
    ELSE Clip(i - st, 0, n - 1)

NextIndDownOnly(i, button, evstep, st, n) ==
    IF button = "up"
    THEN Clip(i + st, 0, n - 1)
    ELSE IF button = "down" THEN Clip(i - st, 0, n - 1) ELSE i

NextInd(i, button, evstep, st, n) ==
    IF button = "up"
    THEN Clip(i + st, 0, n - 1)
    ELSE Clip(i - st, 0, n - 1)

RedrawIfMoved(a, frs, names, kwargs, old, new) ==
    IF new = old THEN a ELSE Update(a, frs, names, kwargs, new)

Redraw(a, frs, names, kwargs, old, new) ==
    Update(a, frs, names, kwargs, new)

Onscroll(button, evstep) ==
    /\ Len(log) < MaxEvents
    /\ ind' = NextInd(ind, button, evstep, step, Len(frames))
    /\ ax' = Redraw(ax, frames, frame_names, img_kwargs, ind, ind')
    /\ log' = Append(log, [button |-> button, step |-> evstep])
    /\ trail' = Append(trail, ind')
    /\ UNCHANGED <<frames, frame_names, step, img_kwargs, calls>>

(***************************************************************************)
(* Values handed to the plotting functions.  arrs is a bare 2-D array or a *)
(* tuple of 2-D arrays of one shape; names is None, a str or a tuple of    *)
(* str; a raised exception ends the trace of rendering actions.            *)
(***************************************************************************)
MaxArrs == 2

PlotA == << <<1, 2, 3, 4>>, <<5, 6, 7, 8>> >>

PlotB == << <<9, 9, 9, 9>>, <<9, 9, 9, 9>> >>

PlotPool == {PlotA, PlotB}

None == [kind |-> "none"]

Str(s) == [kind |-> "str", s |-> s]

Tuple(items) == [kind |-> "tuple", items |-> items]

Nd2(m) == [kind |-> "ndarray", ndim |-> 2, data |-> m]

Nd1(r) == [kind |-> "ndarray", ndim |-> 1, data |-> r]

ArrsInputs ==
    {Nd2(m) : m \in PlotPool} \cup
    {Tuple([i \in DOMAIN f |-> Nd2(f[i])]) :
        f \in UNION {[1..k -> PlotPool] : k \in 1..MaxArrs}}

NamesInputs == {None, Str("s0"), Tuple(<<Str("t0"), Str("t1")>>)}

SaveToInputs == {None, Str("out.png")}

AsarrayNdim(v) ==
    IF v.kind = "ndarray" THEN v.ndim
    ELSE IF v.items = <<>> THEN 1 ELSE 1 + v.items[1].ndim

PyLen(v) == IF v.kind = "ndarray" THEN Len(v.data) ELSE Len(v.items)

PyItem(v, i) == IF v.kind = "ndarray" THEN Nd1(v.data[i + 1]) ELSE v.items[i + 1]

NdT(v) == IF v.ndim = 2 THEN Nd2(Transpose(v.data)) ELSE v

NormaliseArrsNever(arrs) == arrs

NormaliseArrs(arrs) == IF AsarrayNdim(arrs) = 2 THEN Tuple(<<arrs>>) ELSE arrs

NormaliseNames(names) == IF names.kind = "str" THEN Tuple(<<names>>) ELSE names

Raise(trace, exc) == Append(trace, <<"raise", exc>>)

Raised(trace) == trace # <<>> /\ trace[Len(trace)][1] = "raise"

(***************************************************************************)
(* seismic_plot                                                            *)
(***************************************************************************)
SeismicStep(trace, arrs, names, kwargs, i) ==
    LET arr == PyItem(arrs, i)
        t1 == IF arr.ndim # 2 THEN Raise(trace, "TypeError")
              ELSE Append(trace, <<"imshow", <<0, i>>, NdT(arr).data, kwargs>>)
        t2 == IF Raised(t1) \/ names.kind = "none" THEN t1
              ELSE IF i >= PyLen(names) THEN Raise(t1, "IndexError")
              ELSE Append(t1, <<"set_title", <<0, i>>, PyItem(names, i).s>>)
    IN  IF Raised(t2) THEN t2
        ELSE Append(t2, <<"set_aspect", <<0, i>>, "auto">>)

RECURSIVE SeismicLoop(_, _, _, _, _)
SeismicLoop(trace, arrs, names, kwargs, i) ==
    IF Raised(trace) THEN trace
    ELSE IF i >= PyLen(arrs) THEN Append(trace, <<"show">>)
    ELSE SeismicLoop(SeismicStep(trace, arrs, names, kwargs, i),
                     arrs, names, kwargs, i + 1)

seismic_plot(arrs, names, figsize, save_to, kwargs) ==
    LET a == NormaliseArrs(arrs)
        nm == NormaliseNames(names)
    IN  SeismicLoop(<< <<"subplots", 1, PyLen(a), figsize>> >>, a, nm, kwargs, 0)

SeismicPlotCall(arrs, names, figsize, save_to, kwargs) ==
    LET call == [fn |-> "seismic_plot", arrs |-> arrs, names |-> names,
                 figsize |-> figsize, save_to |-> save_to, kwargs |-> kwargs,
                 trace |-> seismic_plot(arrs, names, figsize, save_to, kwargs)]
    IN  /\ calls' = IF Len(calls) < 2 THEN Append(calls, call)
                    ELSE <<calls[2], call>>
        /\ UNCHANGED trackerVars

(***************************************************************************)
(* spectrum_plot.  A slice is [start, stop]; a frequency bin k of an n     *)
(* point transform sampled every d is the rational k / (n * d); max_freq   *)
(* is None or a rational <<p, q>> with q > 0.  The power of a bin is kept  *)
(* symbolic.  The names bound at module level are those of the imports,    *)
(* the class and the three functions.                                      *)
(***************************************************************************)
ModuleGlobals ==
    {"functools", "np", "plt", "gridspec", "patches",
     "IndexTracker", "partialmethod", "seismic_plot", "spectrum_plot"}

GlobalValue(name) == CHOOSE v \in {} : TRUE

Slice(start, stop) == [start |-> start, stop |-> stop]

FrameInputs ==
    {<<Slice(0, 2), Slice(0, 4)>>, <<Slice(0, 1), Slice(1, 3)>>}

RateInputs == {500}

MaxFreqInputs ==
    {None, Tuple(<<-1, 1>>), Tuple(<<0, 1>>), Tuple(<<1, 1000>>), Tuple(<<1, 2>>)}

SliceSeq(seq, sl) ==
    LET lo == Clip(sl.start, 0, Len(seq))
        hi == Clip(sl.stop, 0, Len(seq))
    IN  SubSeq(seq, lo + 1, hi)

GetFrame(arr, frame) ==
    [r \in 1..Len(SliceSeq(arr, frame[1])) |->
        SliceSeq(SliceSeq(arr, frame[1])[r], frame[2])]

Rfftfreq(n, d) == [k \in 1..(n \div 2 + 1) |-> <<k - 1, n * d>>]

MeanPower(block) ==
    [k \in 1..(Len(block[1]) \div 2 + 1) |-> <<"mean |rfft|^2", block, k - 1>>]

FreqLeq(f, max_freq) ==
    f[1] * max_freq.items[2] <= max_freq.items[1] * f[2]

RECURSIVE SelectMask(_, _, _)
SelectMask(seq, mask, k) ==
    IF k > Len(seq) THEN <<>>
    ELSE (IF mask[k] THEN <<seq[k]>> ELSE <<>>) \o SelectMask(seq, mask, k + 1)

Format(prefix, names, i) ==
    <<prefix, IF names.kind # "none" THEN PyItem(names, i).s ELSE "">>

SpectrumTop(trace, frame, arrs, names, kwargs, i) ==
    LET arr == PyItem(arrs, i)
        rect == [xy |-> <<frame[1].start, frame[2].start>>,
                 width |-> frame[1].stop - frame[1].start,
                 height |-> frame[2].stop - frame[2].start,
                 edgecolor |-> "r", facecolor |-> "none", lw |-> 2]
        t1 == IF arr.ndim # 2 THEN Raise(trace, "TypeError")
              ELSE Append(Append(trace,
                       <<"imshow", <<0, i>>, NdT(arr).data, kwargs>>),
                       <<"add_patch", <<0, i>>, rect>>)
        t2 == IF Raised(t1) THEN t1
              ELSE IF names.kind # "none" /\ i >= PyLen(names)
                   THEN Raise(t1, "IndexError")
              ELSE Append(t1, <<"set_title", <<0, i>>,
                                Format("Seismogram ", names, i)>>)
    IN  IF Raised(t2) THEN t2
        ELSE Append(t2, <<"set_aspect", <<0, i>>, "auto">>)

SpectrumBottom(trace, frame, arrs, max_freq, names, i) ==
    LET block == GetFrame(PyItem(arrs, i).data, frame)
        spec == MeanPower(block)
        freqs == Rfftfreq(Len(block[1]), GlobalValue("timestep"))
        mask == [k \in 1..Len(freqs) |-> FreqLeq(freqs[k], max_freq)]
    IN  IF "timestep" \notin ModuleGlobals THEN Raise(trace, "NameError")
        ELSE IF max_freq.kind = "none" THEN Raise(trace, "IndexError")
        ELSE trace \o
             << <<"plot", <<1, i>>, SelectMask(freqs, mask, 1),
                  SelectMask(spec, mask, 1)>>,
                <<"set_xlabel", <<1, i>>, "Hz">>,
                <<"set_title", <<1, i>>, Format("Spectrum plot ", names, i)>>,
                <<"set_aspect", <<1, i>>, "auto">> >>

RECURSIVE SpectrumLoop(_, _, _, _, _, _, _, _)
SpectrumLoop(trace, frame, arrs, max_freq, names, save_to, kwargs, i) ==
    IF Raised(trace) THEN trace
    ELSE IF i >= PyLen(arrs)
    THEN (IF save_to.kind # "none"
          THEN Append(trace, <<"savefig", save_to.s>>) ELSE trace)
         \o << <<"show">> >>
    ELSE LET top == SpectrumTop(trace, frame, arrs, names, kwargs, i)
             both == IF Raised(top) THEN top
                     ELSE SpectrumBottom(top, frame, arrs, max_freq, names, i)
         IN  SpectrumLoop(both, frame, arrs, max_freq, names, save_to,
                          kwargs, i + 1)

spectrum_plot(frame, arrs, rate, max_freq, names, figsize, save_to, kwargs) ==
    LET a == NormaliseArrs(arrs)
        nm == NormaliseNames(names)
    IN  SpectrumLoop(<< <<"subplots", 2, PyLen(a), figsize>> >>,
                     frame, a, max_freq, nm, save_to, kwargs, 0)

SpectrumPlotCall(frame, arrs, rate, max_freq, names, figsize, save_to, kwargs) ==
    LET call == [fn |-> "spectrum_plot", frame |-> frame, arrs |-> arrs,
                 rate |-> rate, max_freq |-> max_freq, names |-> names,
                 figsize |-> figsize, save_to |-> save_to, kwargs |-> kwargs,
                 trace |-> spectrum_plot(frame, arrs, rate, max_freq, names,
                                         figsize, save_to, kwargs)]
    IN  /\ calls' = <<call>>
        /\ UNCHANGED trackerVars

Init ==
    /\ TrackerInit
    /\ calls = <<>>

Next == \E button \in Buttons, evstep \in EventSteps : Onscroll(button, evstep)

Spec == Init /\ [][Next]_vars

(***************************************************************************)
(* The plotting functions are called on their own: no tracker takes part.  *)
(***************************************************************************)
PlotInit ==
    /\ frames = <<ArrA>>
    /\ frame_names = SubSeq(NamePool, 1, 1)
    /\ step = 1
    /\ img_kwargs = {}
    /\ ind = InitInd(frames)
    /\ ax = Update(NewAxes, frames, frame_names, img_kwargs, ind)
    /\ log = <<>>
    /\ trail = <<ind>>
    /\ calls = <<>>

NextSeismic ==
    \E arrs \in ArrsInputs, names \in NamesInputs, kwargs \in KwargsPool :
        SeismicPlotCall(arrs, names, None, None, kwargs)

SpecSeismic == PlotInit /\ [][NextSeismic]_vars

NextSpectrum ==
    \E frame \in FrameInputs, arrs \in ArrsInputs, rate \in RateInputs,
       max_freq \in MaxFreqInputs, names \in NamesInputs,
       save_to \in SaveToInputs :
        SpectrumPlotCall(frame, arrs, rate, max_freq, names, None,
                         save_to, {})

SpecSpectrum == PlotInit /\ [][NextSpectrum]_vars

(***************************************************************************)
(* Properties of IndexTracker.                                             *)
(***************************************************************************)
N == Len(frames)

Clamp(x, lo, hi) == IF x < lo THEN lo ELSE IF x > hi THEN hi ELSE x

(* C1: after construction and after every scroll event, whatever the       *)
(* buttons, the index lies in 0..N-1 (clamped at the bounds, no wrap).     *)
C1_IndexInRange ==
    /\ ind >= 0 /\ ind <= N - 1
    /\ \A k \in 1..Len(trail) : trail[k] >= 0 /\ trail[k] <= N - 1
    /\ \A k \in 1..Len(log) :
          /\ (log[k].button = "up") => trail[k + 1] >= trail[k]
          /\ (log[k].button # "up") => trail[k + 1] <= trail[k]

(* An 'up' event arrived at the upper bound and a later non-'up' event at  *)
(* the lower bound.                                                        *)
C1_Witness ==
    /\ N >= 3
    /\ \E k \in 1..Len(log) :
          log[k].button = "up" /\ trail[k] = N - 1 /\ trail[k + 1] = N - 1
    /\ \E k \in 1..Len(log) :
          log[k].button = "left" /\ trail[k] < step /\ trail[k + 1] = 0

(* C2: construction sets the index to len(frames) // 2 and renders that    *)
(* frame once before any scroll event is handled.                          *)
C2_InitialIndexAndRender ==
    /\ 2 * trail[1] <= N /\ N < 2 * trail[1] + 2
    /\ (log = <<>>) =>
          /\ ind = trail[1]
          /\ ax.clears = 1
          /\ Len(ax.images) = 1
          /\ ax.title = frame_names[trail[1] + 1]

C2_Witness == log = <<>> /\ N = 5 /\ ind = 2 /\ ax.clears = 1

(* C3: one scroll event sets the index to clamp(index + step, 0, N-1) when *)
(* its button is 'up' and to clamp(index - step, 0, N-1) for any other     *)
(* button; nothing else can result.                                        *)
C3_OnscrollClamps ==
    \A k \in 1..Len(log) :
        trail[k + 1] = IF log[k].button = "up"
                       THEN Clamp(trail[k] + step, 0, N - 1)
                       ELSE Clamp(trail[k] - step, 0, N - 1)

C3_Witness ==
    /\ Len(log) = 3
    /\ log[1].button = "down" /\ trail[1] < step /\ trail[2] = 0
    /\ log[2].button = "up" /\ trail[3] = step
    /\ log[3].button = "left" /\ trail[4] = 0

Scenario(l) ==
    /\ Len(l) = 3
    /\ l[1] = [button |-> "up", step |-> 1]
    /\ l[2] = [button |-> "up", step |-> 10]
    /\ l[3] = [button |-> "down", step |-> 10]

(* C4 as claimed: five frames, construct -> 2, increase with event step 1  *)
(* -> 3, increase with event step 10 -> 4, decrease with event step 10 ->  *)
(* 0: the event's step is the amount moved before clamping.                *)
C4_ScenarioEventStep ==
    (N = 5 /\ step = 1 /\ Scenario(log)) => trail = <<2, 3, 4, 0>>

(* C4 amended: the index moves by the tracker's scroll_step, whatever step *)
(* the event carries; with five frames and scroll_step 1 the scenario      *)
(* gives 2, 3, 4, 3.                                                       *)
C4_ScenarioTrackerStep ==
    /\ (N = 5 /\ step = 1 /\ Scenario(log)) => trail = <<2, 3, 4, 3>>
    /\ \A k \in 1..Len(log) :
          \/ trail[k + 1] - trail[k] \in {step, -step}
          \/ trail[k + 1] \in {0, N - 1}

C4_Witness == N = 5 /\ step = 1 /\ Scenario(log) /\ ind = 3

(* C5 as claimed: from every index other than N-1, 'increase' then         *)
(* 'decrease' returns to the original index; from N-1 with step 1 the pair *)
(* yields N-2.                                                             *)
C5_RoundTripExceptTop ==
    \A k \in 1..(Len(log) - 1) :
        (log[k].button = "up" /\ log[k + 1].button # "up") =>
            /\ (trail[k] # N - 1) => trail[k + 2] = trail[k]
            /\ (trail[k] = N - 1 /\ step = 1) => trail[k + 2] = N - 2

(* C5 amended: from every index with index + step <= N-1, 'increase' then  *)
(* 'decrease' returns to the original index; from any other index the pair *)
(* yields max(0, N-1-step), which is N-2 at index N-1 with step 1 and      *)
(* N >= 2.                                                                 *)
C5_RoundTripUnlessClamped ==
    \A k \in 1..(Len(log) - 1) :
        (log[k].button = "up" /\ log[k + 1].button # "up") =>
            /\ (trail[k] + step <= N - 1) => trail[k + 2] = trail[k]
            /\ (trail[k] + step > N - 1) =>
                  trail[k + 2] = (IF N - 1 - step > 0 THEN N - 1 - step ELSE 0)
            /\ (trail[k] = N - 1 /\ step = 1 /\ N >= 2) => trail[k + 2] = N - 2

C5_Witness ==
    /\ Len(log) = 3
    /\ log[1].button = "up" /\ log[2].button = "down" /\ log[3].button = "up"
    /\ trail[1] + step <= N - 1 /\ trail[3] = trail[1]
    /\ step = 2 /\ N = 5 /\ trail[4] = 4

(* C6: every scroll event, also one that leaves the index unchanged,       *)
(* triggers exactly one redraw, and after construction and each event the  *)
(* axes show the transpose of frames[ind] with title frame_names[ind],     *)
(* ylim [shape[1], 0] and xlim [0, shape[0]].                              *)
C6_DisplayFollowsIndex ==
    LET frame == frames[ind + 1]
        rows == Len(frame)
        cols == Len(frame[1])
    IN  /\ ax.clears = 1 + Len(log)
        /\ Len(ax.images) = 1
        /\ Len(ax.images[1].data) = cols
        /\ \A c \in 1..cols :
              /\ Len(ax.images[1].data[c]) = rows
              /\ \A r \in 1..rows : ax.images[1].data[c][r] = frame[r][c]
        /\ ax.images[1].kwargs = img_kwargs
        /\ ax.title = NamePool[ind + 1]
        /\ ax.aspect = "auto"
        /\ ax.ylim = <<cols, 0>>
        /\ ax.xlim = <<0, rows>>

C6_Witness ==
    /\ Len(log) = 2
    /\ trail[2] # trail[1] /\ frames[trail[2] + 1] # frames[trail[1] + 1]
    /\ trail[3] = trail[2]
    /\ ax.clears = 3

(***************************************************************************)
(* Properties of seismic_plot and spectrum_plot.                           *)
(***************************************************************************)
SameOptions(c1, c2) ==
    /\ c1.names = c2.names
    /\ c1.figsize = c2.figsize
    /\ c1.save_to = c2.save_to
    /\ c1.kwargs = c2.kwargs

BareAndWrapped(c1, c2) ==
    /\ c1.fn = "seismic_plot" /\ c2.fn = "seismic_plot"
    /\ c1.arrs.kind = "ndarray" /\ c1.arrs.ndim = 2
    /\ c2.arrs.kind = "tuple" /\ c2.arrs.items = <<c1.arrs>>
    /\ SameOptions(c1, c2)

FirstName(names) ==
    IF names.kind = "str" THEN names.s ELSE names.items[1].s

SingleSubplotTrace(c) ==
    LET m == c.arrs.data
        img == [j \in 1..Len(m[1]) |-> [r \in 1..Len(m) |-> m[r][j]]]
    IN  << <<"subplots", 1, 1, c.figsize>>,
           <<"imshow", <<0, 0>>, img, c.kwargs>> >>
        \o (IF c.names.kind = "none" THEN <<>>
            ELSE << <<"set_title", <<0, 0>>, FirstName(c.names)>> >>)
        \o << <<"set_aspect", <<0, 0>>, "auto">>, <<"show">> >>

(* C7: seismic_plot on a bare 2-D array produces the same rendering        *)
(* actions (one row, one subplot, transposed image, optional title         *)
(* names[0], auto aspect, show) as on the one-element sequence holding     *)
(* that array, for the same names and display options.                     *)
C7_BareEqualsSingleton ==
    \A i \in 1..Len(calls), j \in 1..Len(calls) :
        BareAndWrapped(calls[i], calls[j]) =>
            /\ calls[i].trace = calls[j].trace
            /\ calls[i].trace = SingleSubplotTrace(calls[i])

C7_Witness ==
    /\ Len(calls) = 2
    /\ BareAndWrapped(calls[1], calls[2])
    /\ calls[1].names.kind = "tuple"
    /\ calls[1].arrs.data = PlotA
    /\ calls[2].trace[Len(calls[2].trace)] = <<"show">>

Positions(trace, op) == {k \in 1..Len(trace) : trace[k][1] = op}

Drawn(trace, op, axis, before) ==
    \E k \in 1..(before - 1) : trace[k][1] = op /\ trace[k][2] = axis

NumArrs(c) == IF c.arrs.kind = "ndarray" THEN 1 ELSE Len(c.arrs.items)

(* C8: spectrum_plot with save_to saves the figure to that path exactly    *)
(* once, after the image and spectrum of every array are drawn and before  *)
(* the figure is shown; without save_to nothing is saved and the figure is *)
(* still shown.                                                            *)
C8_SaveOnceBeforeShow ==
    \A c \in {calls[k] : k \in 1..Len(calls)} :
        (c.fn = "spectrum_plot") =>
            LET t == c.trace
                saves == Positions(t, "savefig")
            IN  /\ t[Len(t)] = <<"show">>
                /\ Positions(t, "show") = {Len(t)}
                /\ (c.save_to.kind = "none") => saves = {}
                /\ (c.save_to.kind # "none") =>
                      /\ saves = {Len(t) - 1}
                      /\ t[Len(t) - 1] = <<"savefig", c.save_to.s>>
                      /\ \A i \in 0..(NumArrs(c) - 1) :
                            /\ Drawn(t, "imshow", <<0, i>>, Len(t) - 1)
                            /\ Drawn(t, "plot", <<1, i>>, Len(t) - 1)

(* C9: spectrum_plot with max_freq below the smallest positive frequency   *)
(* bin (here max_freq <= 0, below every positive bin) plots an empty       *)
(* frequency/power series for each array and raises no error.              *)
C9_EmptySeriesBelowFirstBin ==
    \A c \in {calls[k] : k \in 1..Len(calls)} :
        (/\ c.fn = "spectrum_plot"
         /\ c.max_freq.kind # "none"
         /\ c.max_freq.items[1] <= 0) =>
            /\ ~Raised(c.trace)
            /\ \A i \in 0..(NumArrs(c) - 1) :
                  \E k \in Positions(c.trace, "plot") :
                      /\ c.trace[k][2] = <<1, i>>
                      /\ c.trace[k][3] = <<>>
                      /\ c.trace[k][4] = <<>>

Arr(c, i) == IF c.arrs.kind = "ndarray" THEN c.arrs.data ELSE c.arrs.items[i + 1].data

RoiWidth(c) == c.frame[2].stop - c.frame[2].start

ExpectedBins(c) ==
    LET n == RoiWidth(c)
        d == GlobalValue("timestep")
    IN  {k \in 0..(n \div 2) :
            \/ c.max_freq.kind = "none"
            \/ k * c.max_freq.items[2] <= c.max_freq.items[1] * n * d}

(* C10: for each array spectrum_plot plots exactly the bins with           *)
(* freq <= max_freq when max_freq is given and every bin of the one-sided  *)
(* grid when it is not, each once, in increasing order, with its own       *)
(* averaged power.                                                         *)
C10_PlottedBins ==
    \A c \in {calls[k] : k \in 1..Len(calls)} :
        (c.fn = "spectrum_plot") =>
            /\ ~Raised(c.trace)
            /\ \A i \in 0..(NumArrs(c) - 1) :
                  \E k \in Positions(c.trace, "plot") :
                      LET fs == c.trace[k][3]
                          ps == c.trace[k][4]
                      IN  /\ c.trace[k][2] = <<1, i>>
                          /\ Len(fs) = Len(ps)
                          /\ {fs[x][1] : x \in 1..Len(fs)} = ExpectedBins(c)
                          /\ \A x \in 1..(Len(fs) - 1) : fs[x][1] < fs[x + 1][1]
                          /\ \A x \in 1..Len(fs) :
                                ps[x] = <<"mean |rfft|^2",
                                          GetFrame(Arr(c, i), c.frame), fs[x][1]>>

====
